---- MODULE Spec2Model ----
(***************************************************************************)
(* Access-control / activation engine of the edupath application:          *)
(* AccessContext (student.py), the activation cascades and revocations     *)
(* (activation_utils.py), the code redemption routes (student.py) and the  *)
(* teacher's access-management routes (teacher.py).                         *)
(*                                                                         *)
(* The six MongoDB collections of activations and activation codes and the *)
(* requires_code flags are the state.  An activation collection is kept as *)
(* the number of active and of inactive rows per (content, student) pair:  *)
(* no query of the program distinguishes two rows of one pair otherwise.   *)
(*                                                                         *)
(* A handler is an operator from the database (a record of the            *)
(* collections, DB) and the request's inputs to the database it leaves     *)
(* and what it reports; the action of the handler commits that result.     *)
(***************************************************************************)
EXTENDS Naturals, FiniteSets, Sequences, TLC

\* ------------------------------------------------------------------------
\* Bounds of the model
\* ------------------------------------------------------------------------
\* Number of requests served after the initial state.
MaxOps == 1

\* ------------------------------------------------------------------------
\* The content tree (documents of the subjects / sections / lessons / tests
\* collections) and the students.  Lesson and test ids are ordered, as
\* ObjectIds are.
\* ------------------------------------------------------------------------
Students == {"u1", "u2"}
Subjects == {"S1", "S2"}     \* S2 has no section
Sections == {"T1", "T2"}
Lessons  == {1, 2, 3, 4}
Tests    == {1, 2, 3, 4}

\* Section.subject_id
SectionSubject == [t \in Sections |-> "S1"]
\* Lesson.section_id
LessonSection == [l \in Lessons |-> IF l = 3 THEN "T2" ELSE "T1"]
\* Test.section_id
TestSection == [x \in Tests |-> IF x \in {1, 2, 3} THEN "T1" ELSE "T2"]
\* Test.lesson_id; NoLesson is the null reference of a section-wide test
NoLesson == 0
TestLesson == [x \in Tests |-> IF x = 1 THEN 2 ELSE NoLesson]

\* Section.objects(subject_id=subject.id)
SectionsOf(subject) == {t \in Sections : SectionSubject[t] = subject}
\* Lesson.objects(section_id=section.id)   (Section.lessons), among the
\* stored lessons ls
LessonsOf(ls, section) == {l \in ls : LessonSection[l] = section}
\* Test.objects(section_id=section.id)   (Section.tests)
TestsOf(section) == {x \in Tests : TestSection[x] = section}

\* Code values: six characters of A-Z0-9, unique within one code collection.
CodeValues == {"AAAAAA", "BBBBBB"}
\* What a student may type into the six-character code field.
TypedCodes == {"AAAAAA", "aaaaaa", "BBBBBB"}
\* form.code.data.strip().upper()
StripUpper(typed) == IF typed = "aaaaaa" THEN "AAAAAA" ELSE typed

VARIABLES
    subjects,                   \* collection subjects: the ids stored
    sections,                   \* collection sections: the ids stored
    tests,                      \* collection tests: the ids stored
    lessons,                    \* collection lessons: the ids stored
    subject_requires_code,      \* Subject.requires_code
    section_requires_code,      \* Section.requires_code
    subject_activations,        \* collection subject_activations
    section_activations,        \* collection section_activations
    lesson_activations,         \* collection lesson_activations
    subject_activation_codes,   \* collection subject_activation_codes
    activation_codes,           \* collection activation_codes (section codes)
    lesson_activation_codes,    \* collection lesson_activation_codes
    last,                       \* the last completed request and its outcome
    ops,                        \* number of completed requests
    reqs                        \* the requests in progress, one per worker

flags == <<subject_requires_code, section_requires_code>>
acts  == <<subject_activations, section_activations, lesson_activations>>
codes == <<subject_activation_codes, activation_codes, lesson_activation_codes>>
tree  == <<subjects, sections, tests>>
vars  == <<tree, lessons, flags, acts, codes, last, ops, reqs>>

\* ------------------------------------------------------------------------
\* Collections
\* ------------------------------------------------------------------------
NoRows == [active |-> 0, inactive |-> 0]

\* X.objects(<content>=c, student_id=x, active=True).first()
ActiveRow(coll, c, x) == coll[<<c, x>>].active > 0

\* Faulty variant of EnsureActive: a row is saved without the query for an
\* active one.
EnsureActive_unchecked(coll, c, x) == [coll EXCEPT ![<<c, x>>].active = @ + 1]

\* if not X.objects(..., active=True).first(): X(<content>=c, student_id=x).save()
EnsureActive(coll, c, x) ==
    IF ActiveRow(coll, c, x)
    THEN coll
    ELSE [coll EXCEPT ![<<c, x>>].active = @ + 1]

\* Faulty variant of Deactivate: the query is not scoped to the students.
Deactivate_any_student(coll, cs, xs) ==
    [k \in DOMAIN coll |->
        IF k[1] \in cs
        THEN [active |-> 0, inactive |-> coll[k].inactive + coll[k].active]
        ELSE coll[k]]

\* for a in X.objects(<content>__in=cs, student_id__in=xs, active=True):
\*     a.active = False; a.save()
Deactivate(coll, cs, xs) ==
    [k \in DOMAIN coll |->
        IF k[1] \in cs /\ k[2] \in xs
        THEN [active |-> 0, inactive |-> coll[k].inactive + coll[k].active]
        ELSE coll[k]]

\* Faulty variant of MatchingCodes: the lookup is not scoped to the student.
MatchingCodes_any_student(coll, c, x, v) ==
    {r \in coll : r.content = c /\ r.code = v}

\* Code.objects(<content>=c, student_id=x, code=v).first(): code is unique in
\* a collection, so at most one row matches.
MatchingCodes(coll, c, x, v) ==
    {r \in coll : r.content = c /\ r.student_id = x /\ r.code = v}

\* ac.is_used = True; ac.used_at = utcnow(); ac.save()
MarkUsed(coll, row) == (coll \ {row}) \cup {[row EXCEPT !.is_used = TRUE]}

\* ------------------------------------------------------------------------
\* Access engine: class AccessContext(section, student_id)
\* ------------------------------------------------------------------------
\* self.subject_requires_code
ctx_subject_requires_code(section) == subject_requires_code[SectionSubject[section]]

\* self.subject_active
ctx_subject_active(section, student) ==
    ActiveRow(subject_activations, SectionSubject[section], student)

\* self.subject_open
ctx_subject_open(section, student) ==
    ctx_subject_active(section, student) \/ ~ctx_subject_requires_code(section)

\* self.section_requires_code
ctx_section_requires_code(section) == section_requires_code[section]

\* self.section_active
ctx_section_active(section, student) ==
    ActiveRow(section_activations, section, student)

\* Faulty variant of section_open: the subject's requires_code is not looked
\* at, an ungated section is open under a gated subject.
ctx_section_open_section_default(section, student) ==
    IF ctx_subject_active(section, student)
    THEN TRUE
    ELSE ctx_section_active(section, student)
         \/ ~ctx_section_requires_code(section)

\* Faulty variant of section_open: under a gated subject the section
\* activation is not honoured, only the subject activation is.
ctx_section_open_subject_only(section, student) ==
    IF ctx_subject_active(section, student)
    THEN TRUE
    ELSE IF ctx_subject_requires_code(section)
         THEN FALSE
         ELSE ctx_section_active(section, student)
              \/ ~ctx_section_requires_code(section)

\* self.section_open
ctx_section_open(section, student) ==
    IF ctx_subject_active(section, student)
    THEN TRUE
    ELSE IF ctx_subject_requires_code(section)
         THEN ctx_section_active(section, student)
         ELSE ctx_section_active(section, student)
              \/ ~ctx_section_requires_code(section)

\* self.lesson_activation_ids
ctx_lesson_activation_ids(section, student) ==
    {l \in LessonsOf(lessons, section) : ActiveRow(lesson_activations, l, student)}

\* Faulty variant of lesson_open: the lesson of the section with the lowest
\* id is open without any activation.
lesson_open_first_free(section, student, lesson) ==
    IF ctx_subject_active(section, student)
    THEN TRUE
    ELSE IF \A l \in LessonsOf(lessons, section) : lesson <= l
         THEN TRUE
         ELSE IF ctx_section_open(section, student)
              THEN TRUE
              ELSE lesson \in ctx_lesson_activation_ids(section, student)

\* Faulty variant of lesson_open: any lesson activation of the section opens
\* every lesson of the section.
lesson_open_any_activation(section, student, lesson) ==
    IF ctx_subject_active(section, student)
    THEN TRUE
    ELSE IF ctx_subject_requires_code(section)
         THEN IF ctx_section_active(section, student)
              THEN TRUE
              ELSE ctx_lesson_activation_ids(section, student) # {}
         ELSE IF ctx_section_open(section, student)
              THEN TRUE
              ELSE ctx_lesson_activation_ids(section, student) # {}

\* AccessContext.lesson_open(lesson)
lesson_open(section, student, lesson) ==
    IF ctx_subject_active(section, student)
    THEN TRUE
    ELSE IF ctx_subject_requires_code(section)
         THEN IF ctx_section_active(section, student)
              THEN TRUE
              ELSE lesson \in ctx_lesson_activation_ids(section, student)
         ELSE IF ctx_section_open(section, student)
              THEN TRUE
              ELSE lesson \in ctx_lesson_activation_ids(section, student)

\* Faulty variant of test_open: the subject activation is not consulted
\* first.
test_open_no_subject_shortcut(section, student, test) ==
    IF TestLesson[test] # NoLesson
    THEN lesson_open(section, student, TestLesson[test])
    ELSE IF ctx_subject_requires_code(section)
         THEN ctx_section_active(section, student)
         ELSE ctx_section_active(section, student)
              \/ ~ctx_section_requires_code(section)

\* Faulty variant of test_open: a lesson activation in the section opens the
\* section-wide tests.
test_open_by_lesson_activation(section, student, test) ==
    IF ctx_subject_active(section, student)
    THEN TRUE
    ELSE IF TestLesson[test] # NoLesson
         THEN lesson_open(section, student, TestLesson[test])
         ELSE \/ ctx_section_open(section, student)
              \/ ctx_lesson_activation_ids(section, student) # {}

\* AccessContext.test_open(test)
test_open(section, student, test) ==
    IF ctx_subject_active(section, student)
    THEN TRUE
    ELSE IF TestLesson[test] # NoLesson
         THEN lesson_open(section, student, TestLesson[test])
         ELSE IF ctx_subject_requires_code(section)
              THEN ctx_section_active(section, student)
              ELSE ctx_section_open(section, student)

\* The database as the handlers see it.
DB ==
    [lessons                  |-> lessons,
     subject_requires_code    |-> subject_requires_code,
     section_requires_code    |-> section_requires_code,
     subject_activations      |-> subject_activations,
     section_activations      |-> section_activations,
     lesson_activations       |-> lesson_activations,
     subject_activation_codes |-> subject_activation_codes,
     activation_codes         |-> activation_codes,
     lesson_activation_codes  |-> lesson_activation_codes]

\* ------------------------------------------------------------------------
\* activation_utils.py: cascades
\* ------------------------------------------------------------------------
\* Faulty variant of EnsureAll: a row is saved without looking for an active
\* one first.
EnsureAll_unconditional(coll, cs, student) ==
    [k \in DOMAIN coll |->
        IF k[1] \in cs /\ k[2] = student
        THEN [coll[k] EXCEPT !.active = @ + 1]
        ELSE coll[k]]

\* for c in cs: if not X.objects(<content>=c, student_id=student,
\*                                 active=True).first(): X(...).save()
EnsureAll(coll, cs, student) ==
    [k \in DOMAIN coll |->
        IF k[1] \in cs /\ k[2] = student /\ coll[k].active = 0
        THEN [coll[k] EXCEPT !.active = 1]
        ELSE coll[k]]

\* Faulty variant of cascade_subject_activation: the sections are activated,
\* their lessons are not.
cascade_subject_activation_sections_only(db, subject, student) ==
    [db EXCEPT
        !.section_activations = EnsureAll(@, SectionsOf(subject), student)]

cascade_subject_activation(db, subject, student) ==
    [db EXCEPT
        !.section_activations = EnsureAll(@, SectionsOf(subject), student),
        !.lesson_activations =
            EnsureAll(@, UNION {LessonsOf(db.lessons, t) : t \in SectionsOf(subject)},
                      student)]

\* Faulty variant of cascade_section_activation: no lesson is activated.
cascade_section_activation_skipped(db, section, student) == db

cascade_section_activation(db, section, student) ==
    [db EXCEPT !.lesson_activations =
                   EnsureAll(@, LessonsOf(db.lessons, section), student)]

cascade_lesson_activation(db, lesson, student) ==
    [db EXCEPT !.lesson_activations = EnsureActive(@, lesson, student)]

\* ------------------------------------------------------------------------
\* activation_utils.py: revoke and lock.  LessonActivation has no section_id
\* field, so the query LessonActivation.objects(section_id=...) is rejected
\* by the document layer when it is evaluated (InvalidQueryError): the
\* function stops there, after the writes it has already made, and no
\* lesson activation is touched.  "raised" tells whether that query was
\* reached.
\* ------------------------------------------------------------------------
revoke_subject_activation(db, subject, student) ==
    [db |-> [db EXCEPT
                !.subject_activations = Deactivate(@, {subject}, {student}),
                !.section_activations =
                    IF SectionsOf(subject) # {}
                    THEN Deactivate(@, SectionsOf(subject), {student})
                    ELSE @],
     raised |-> SectionsOf(subject) # {}]

revoke_section_activation(db, section, student) ==
    [db |-> [db EXCEPT
                !.section_activations = Deactivate(@, {section}, {student})],
     raised |-> TRUE]

lock_subject_access_for_all(db, subject) ==
    [db |-> [db EXCEPT
                !.subject_activations = Deactivate(@, {subject}, Students),
                !.section_activations =
                    IF SectionsOf(subject) # {}
                    THEN Deactivate(@, SectionsOf(subject), Students)
                    ELSE @],
     raised |-> SectionsOf(subject) # {}]

lock_section_access_for_all(db, section) ==
    [db |-> [db EXCEPT
                !.section_activations = Deactivate(@, {section}, Students)],
     raised |-> TRUE]

\* teacher.py helper revoke_lesson_activation
revoke_lesson_activation(db, lesson, student) ==
    [db EXCEPT !.lesson_activations = Deactivate(@, {lesson}, {student})]

\* What a request reports when a function it called raised or returned.
Outcome(raised) == IF raised THEN "error" ELSE "success"

\* ------------------------------------------------------------------------
\* student.py: code redemption.  A request that writes nothing at all (GET,
\* a form that fails validation) is left out.
\* ------------------------------------------------------------------------
\* student.py: activate_subject, POST /subjects/<subject_id>/activate
activate_subject(db, subject, student, typed) ==
    LET code_value == StripUpper(typed)
        found == MatchingCodes(db.subject_activation_codes, subject, student, code_value)
    IN  IF found = {}
        THEN [db |-> db, result |-> "invalid"]
        ELSE LET ac == CHOOSE r \in found : TRUE
             IN  IF ac.is_used
                 THEN [db |-> db, result |-> "used"]
                 ELSE LET marked == [db EXCEPT !.subject_activation_codes = MarkUsed(@, ac)]
                          granted == [marked EXCEPT
                                         !.subject_activations = EnsureActive(@, subject, student)]
                      IN  [db |-> cascade_subject_activation(granted, subject, student),
                           result |-> "success"]

\* Faulty variant of activate_section: the is_used check is missing.
activate_section_unchecked(db, section, student, typed) ==
    LET code_value == StripUpper(typed)
        found == MatchingCodes(db.activation_codes, section, student, code_value)
    IN  IF found = {}
        THEN [db |-> db, result |-> "invalid"]
        ELSE LET ac == CHOOSE r \in found : TRUE
                 marked == [db EXCEPT !.activation_codes = MarkUsed(@, ac)]
                 granted == [marked EXCEPT
                                !.section_activations = EnsureActive(@, section, student)]
             IN  [db |-> cascade_section_activation(granted, section, student),
                  result |-> "success"]

\* student.py: activate_section, POST /sections/<section_id>/activate
activate_section(db, section, student, typed) ==
    LET code_value == StripUpper(typed)
        found == MatchingCodes(db.activation_codes, section, student, code_value)
    IN  IF found = {}
        THEN [db |-> db, result |-> "invalid"]
        ELSE LET ac == CHOOSE r \in found : TRUE
             IN  IF ac.is_used
                 THEN [db |-> db, result |-> "used"]
                 ELSE LET marked == [db EXCEPT !.activation_codes = MarkUsed(@, ac)]
                          granted == [marked EXCEPT
                                         !.section_activations = EnsureActive(@, section, student)]
                      IN  [db |-> cascade_section_activation(granted, section, student),
                           result |-> "success"]

\* student.py: activate_lesson, POST /lessons/<lesson_id>/activate
activate_lesson(db, lesson, student, typed) ==
    LET code_value == StripUpper(typed)
        found == MatchingCodes(db.lesson_activation_codes, lesson, student, code_value)
    IN  IF found = {}
        THEN [db |-> db, result |-> "invalid"]
        ELSE LET ac == CHOOSE r \in found : TRUE
             IN  IF ac.is_used
                 THEN [db |-> db, result |-> "used"]
                 ELSE LET marked == [db EXCEPT !.lesson_activation_codes = MarkUsed(@, ac)]
                          granted == [marked EXCEPT
                                         !.lesson_activations = EnsureActive(@, lesson, student)]
                      IN  [db |-> cascade_lesson_activation(granted, lesson, student),
                           result |-> "success"]

\* ------------------------------------------------------------------------
\* teacher.py: access management
\* ------------------------------------------------------------------------
\* _generate_unique_code(model_cls): the values the loop can return, those no
\* row of the collection carries.
_generate_unique_code(coll) == {v \in CodeValues : \A r \in coll : r.code # v}

\* Code(<content>=c, student_id=x, code=v)   (is_used defaults to False)
NewCode(c, x, v) == [content |-> c, student_id |-> x, code |-> v, is_used |-> FALSE]

\* Faulty variant of existing_any: only an unused code of the pair stands in
\* the way of a new one.
existing_any_unused_only(coll, c, x) ==
    \E r \in coll : r.content = c /\ r.student_id = x /\ ~r.is_used

\* Faulty variant of existing_any: the codes the pair already has are not
\* looked at.
existing_any_ignored(coll, c, x) == FALSE

\* Code.objects(<content>=c, student_id=x).first()
existing_any(coll, c, x) == \E r \in coll : r.content = c /\ r.student_id = x

\* teacher.py: manage_subject_access, action toggle_requires_code
manage_subject_access_toggle_requires_code(db, subject) ==
    LET saved == [db EXCEPT !.subject_requires_code[subject] = ~@]
        lock == lock_subject_access_for_all(saved, subject)
    IN  IF saved.subject_requires_code[subject]
        THEN [db |-> lock.db, result |-> Outcome(lock.raised)]
        ELSE [db |-> saved, result |-> "success"]

\* teacher.py: manage_subject_access, action generate_code; code_value is
\* what _generate_unique_code returned
manage_subject_access_generate_code(db, subject, student, code_value) ==
    IF existing_any(db.subject_activation_codes, subject, student)
    THEN [db |-> db, result |-> "rejected"]
    ELSE LET saved == [db EXCEPT
                          !.subject_activation_codes = @ \cup {NewCode(subject, student, code_value)}]
             granted == [saved EXCEPT
                            !.subject_activations = EnsureActive(@, subject, student)]
         IN  [db |-> cascade_subject_activation(granted, subject, student), result |-> "success"]

\* teacher.py: manage_subject_access, action revoke / revoke_access
manage_subject_access_revoke(db, subject, student) ==
    LET rev == revoke_subject_activation(db, subject, student)
    IN  [db |-> rev.db, result |-> Outcome(rev.raised)]

\* teacher.py: manage_subject_access, action activate
manage_subject_access_activate(db, subject, student) ==
    LET granted == [db EXCEPT !.subject_activations = EnsureActive(@, subject, student)]
    IN  [db |-> cascade_subject_activation(granted, subject, student), result |-> "success"]

\* Faulty variant of the subject delete_code: the row is kept and made
\* redeemable again.
manage_subject_access_delete_code_reset(db, subject, ac) ==
    IF ac.content = subject
    THEN [db |-> [db EXCEPT !.subject_activation_codes =
                                (@ \ {ac}) \cup {[ac EXCEPT !.is_used = FALSE]}],
          result |-> "success"]
    ELSE [db |-> db, result |-> "ignored"]

\* teacher.py: manage_subject_access, action delete_code; ac is the row
\* code_id names
manage_subject_access_delete_code(db, subject, ac) ==
    IF ac.content = subject
    THEN [db |-> [db EXCEPT !.subject_activation_codes = @ \ {ac}], result |-> "success"]
    ELSE [db |-> db, result |-> "ignored"]

\* teacher.py: manage_section_access, action toggle_requires_code
manage_section_access_toggle_requires_code(db, section) ==
    LET saved == [db EXCEPT !.section_requires_code[section] = ~@]
        lock == lock_section_access_for_all(saved, section)
    IN  IF saved.section_requires_code[section]
        THEN [db |-> lock.db, result |-> Outcome(lock.raised)]
        ELSE [db |-> saved, result |-> "success"]

\* teacher.py: manage_section_access, action generate_code; code_value is
\* what _generate_unique_code returned
manage_section_access_generate_code(db, section, student, code_value) ==
    IF existing_any(db.activation_codes, section, student)
    THEN [db |-> db, result |-> "rejected"]
    ELSE LET saved == [db EXCEPT
                          !.activation_codes = @ \cup {NewCode(section, student, code_value)}]
             granted == [saved EXCEPT
                            !.section_activations = EnsureActive(@, section, student)]
         IN  [db |-> cascade_section_activation(granted, section, student), result |-> "success"]

\* teacher.py: manage_section_access, action revoke / revoke_access
manage_section_access_revoke(db, section, student) ==
    LET rev == revoke_section_activation(db, section, student)
    IN  [db |-> rev.db, result |-> Outcome(rev.raised)]

\* teacher.py: manage_section_access, action activate
manage_section_access_activate(db, section, student) ==
    LET granted == [db EXCEPT !.section_activations = EnsureActive(@, section, student)]
    IN  [db |-> cascade_section_activation(granted, section, student), result |-> "success"]

\* Faulty variant of the section delete_code: the row is deleted whatever
\* section it belongs to.
manage_section_access_delete_code_any_section(db, section, ac) ==
    [db |-> [db EXCEPT !.activation_codes = @ \ {ac}], result |-> "success"]

\* teacher.py: manage_section_access, action delete_code; ac is the row
\* code_id names
manage_section_access_delete_code(db, section, ac) ==
    IF ac.content = section
    THEN [db |-> [db EXCEPT !.activation_codes = @ \ {ac}], result |-> "success"]
    ELSE [db |-> db, result |-> "ignored"]

\* teacher.py: manage_lesson_access, action generate_code; code_value is
\* what _generate_unique_code returned
manage_lesson_access_generate_code(db, lesson, student, code_value) ==
    IF existing_any(db.lesson_activation_codes, lesson, student)
    THEN [db |-> db, result |-> "rejected"]
    ELSE LET saved == [db EXCEPT
                          !.lesson_activation_codes = @ \cup {NewCode(lesson, student, code_value)}]
             granted == [saved EXCEPT
                            !.lesson_activations = EnsureActive(@, lesson, student)]
         IN  [db |-> cascade_lesson_activation(granted, lesson, student), result |-> "success"]

\* teacher.py: manage_lesson_access, action revoke / revoke_access
manage_lesson_access_revoke(db, lesson, student) ==
    [db |-> revoke_lesson_activation(db, lesson, student), result |-> "success"]

\* teacher.py: manage_lesson_access, action activate
manage_lesson_access_activate(db, lesson, student) ==
    LET granted == [db EXCEPT !.lesson_activations = EnsureActive(@, lesson, student)]
    IN  [db |-> cascade_lesson_activation(granted, lesson, student), result |-> "success"]

\* teacher.py: manage_lesson_access, action delete_code; ac is the row
\* code_id names
manage_lesson_access_delete_code(db, lesson, ac) ==
    IF ac.content = lesson
    THEN [db |-> [db EXCEPT !.lesson_activation_codes = @ \ {ac}], result |-> "success"]
    ELSE [db |-> db, result |-> "ignored"]

\* teacher.py: new_lesson; lesson is the id the new document gets
new_lesson(db, section, lesson) ==
    [db |-> [db EXCEPT !.lessons = @ \cup {lesson}], result |-> "success"]

\* teacher.py: edit_subject (the form's requires_code is stored as submitted)
edit_subject(db, subject, requires_code) ==
    [db |-> [db EXCEPT !.subject_requires_code[subject] = requires_code],
     result |-> "success"]

\* teacher.py: edit_section
edit_section(db, section, requires_code) ==
    [db |-> [db EXCEPT !.section_requires_code[section] = requires_code],
     result |-> "success"]

\* ------------------------------------------------------------------------
\* Initial states.  The content tree is stored and the requires_code flags
\* are whatever the creation forms stored (Subject S2, which has no section,
\* keeps the default).  Each student has a history of earlier requests about
\* one content item: none, or a code issued by the teacher, then possibly
\* redeemed by the student, then possibly revoked by the teacher.  The
\* initial database is the one these requests leave, computed with the
\* handlers themselves.
\* ------------------------------------------------------------------------
Blank(subject_flags, section_flags) ==
    [lessons                  |-> {1, 2, 3},
     subject_requires_code    |-> subject_flags,
     section_requires_code    |-> section_flags,
     subject_activations      |-> [k \in Subjects \X Students |-> NoRows],
     section_activations      |-> [k \in Sections \X Students |-> NoRows],
     lesson_activations       |-> [k \in Lessons \X Students |-> NoRows],
     subject_activation_codes |-> {},
     activation_codes         |-> {},
     lesson_activation_codes  |-> {}]

Levels == {"subject", "section", "lesson"}
Stages == {"issued", "revoked", "redeemed", "redeemed_revoked"}
Histories == {[level |-> "none", stage |-> "none"]}
             \cup [level : Levels, stage : Stages]

Issued(db, level, student, v) ==
    CASE level = "subject" ->
            manage_subject_access_generate_code(db, "S1", student, v).db
      [] level = "section" ->
            manage_section_access_generate_code(db, "T1", student, v).db
      [] level = "lesson" ->
            manage_lesson_access_generate_code(db, 2, student, v).db

Redeemed(db, level, student, v) ==
    CASE level = "subject" -> activate_subject(db, "S1", student, v).db
      [] level = "section" -> activate_section(db, "T1", student, v).db
      [] level = "lesson" -> activate_lesson(db, 2, student, v).db

Revoked(db, level, student) ==
    CASE level = "subject" -> manage_subject_access_revoke(db, "S1", student).db
      [] level = "section" -> manage_section_access_revoke(db, "T1", student).db
      [] level = "lesson" -> manage_lesson_access_revoke(db, 2, student).db

\* The database after the requests of history h of a student, whose code is v.
After(db, h, student, v) ==
    CASE h.stage = "none" -> db
      [] h.stage = "issued" -> Issued(db, h.level, student, v)
      [] h.stage = "revoked" ->
            Revoked(Issued(db, h.level, student, v), h.level, student)
      [] h.stage = "redeemed" ->
            Redeemed(Issued(db, h.level, student, v), h.level, student, v)
      [] h.stage = "redeemed_revoked" ->
            Revoked(Redeemed(Issued(db, h.level, student, v), h.level, student, v),
                    h.level, student)

InitialDatabases ==
    {After(After(Blank(sf, tf), h1, "u1", "AAAAAA"), h2, "u2", "BBBBBB") :
        sf \in {f \in [Subjects -> BOOLEAN] : ~f["S2"]},
        tf \in [Sections -> BOOLEAN],
        h1 \in Histories,
        h2 \in {h \in Histories : h.level \in {"none", "subject", "section"}
                                  /\ h.stage \in {"none", "redeemed"}}}

NoRequest ==
    [op |-> "none", content |-> "none", student |-> "none", code |-> "none",
     result |-> "none"]

Workers == {"w1", "w2"}

\* A request being served: where its handler stands (pc), what was posted,
\* what the cascade still has to visit, and what the request reported.
Idle ==
    [pc |-> "idle", level |-> "none", content |-> "none", student |-> "none",
     code |-> "none", sections_left |-> {}, lessons_left |-> {},
     item |-> "none", result |-> "none"]

Init ==
    /\ \E db \in InitialDatabases :
          /\ lessons = db.lessons
          /\ subject_requires_code = db.subject_requires_code
          /\ section_requires_code = db.section_requires_code
          /\ subject_activations = db.subject_activations
          /\ section_activations = db.section_activations
          /\ lesson_activations = db.lesson_activations
          /\ subject_activation_codes = db.subject_activation_codes
          /\ activation_codes = db.activation_codes
          /\ lesson_activation_codes = db.lesson_activation_codes
    /\ subjects = Subjects
    /\ sections = Sections
    /\ tests = Tests
    /\ last = NoRequest
    /\ ops = 0
    /\ reqs = [w \in Workers |-> Idle]

\* ------------------------------------------------------------------------
\* Requests.  Every action is one whole request: the handler with every call
\* it makes.  "last" records the request served and what it reported.
\* ------------------------------------------------------------------------
Commit(op, content, student, code, r) ==
    /\ ops < MaxOps
    /\ ops' = ops + 1
    /\ last' = [op |-> op, content |-> content, student |-> student,
                code |-> code, result |-> r.result]
    /\ UNCHANGED <<reqs, tree>>
    /\ lessons' = r.db.lessons
    /\ subject_requires_code' = r.db.subject_requires_code
    /\ section_requires_code' = r.db.section_requires_code
    /\ subject_activations' = r.db.subject_activations
    /\ section_activations' = r.db.section_activations
    /\ lesson_activations' = r.db.lesson_activations
    /\ subject_activation_codes' = r.db.subject_activation_codes
    /\ activation_codes' = r.db.activation_codes
    /\ lesson_activation_codes' = r.db.lesson_activation_codes

\* The code values a generate_code request can draw: none are needed when the
\* request is rejected before drawing.
Drawn(coll, c, x) ==
    IF existing_any(coll, c, x) THEN {"AAAAAA"} ELSE _generate_unique_code(coll)

RedeemSubject(subject, student, typed) ==
    Commit("activate_subject", subject, student, StripUpper(typed),
           activate_subject(DB, subject, student, typed))

RedeemSection(section, student, typed) ==
    Commit("activate_section", section, student, StripUpper(typed),
           activate_section(DB, section, student, typed))

RedeemLesson(lesson, student, typed) ==
    Commit("activate_lesson", lesson, student, StripUpper(typed),
           activate_lesson(DB, lesson, student, typed))

SubjectToggle(subject) ==
    Commit("subject_toggle_requires_code", subject, "none", "none",
           manage_subject_access_toggle_requires_code(DB, subject))

SubjectGenerateCode(subject, student) ==
    \E v \in Drawn(subject_activation_codes, subject, student) :
        Commit("subject_generate_code", subject, student, "none",
               manage_subject_access_generate_code(DB, subject, student, v))

SubjectRevoke(subject, student) ==
    Commit("subject_revoke", subject, student, "none",
           manage_subject_access_revoke(DB, subject, student))

SubjectActivate(subject, student) ==
    Commit("subject_activate", subject, student, "none",
           manage_subject_access_activate(DB, subject, student))

SubjectDeleteCode(subject) ==
    \E ac \in subject_activation_codes :
        Commit("subject_delete_code", subject, ac.student_id, ac.code,
               manage_subject_access_delete_code(DB, subject, ac))

SectionToggle(section) ==
    Commit("section_toggle_requires_code", section, "none", "none",
           manage_section_access_toggle_requires_code(DB, section))

SectionGenerateCode(section, student) ==
    \E v \in Drawn(activation_codes, section, student) :
        Commit("section_generate_code", section, student, "none",
               manage_section_access_generate_code(DB, section, student, v))

SectionRevoke(section, student) ==
    Commit("section_revoke", section, student, "none",
           manage_section_access_revoke(DB, section, student))

SectionActivate(section, student) ==
    Commit("section_activate", section, student, "none",
           manage_section_access_activate(DB, section, student))

SectionDeleteCode(section) ==
    \E ac \in activation_codes :
        Commit("section_delete_code", section, ac.student_id, ac.code,
               manage_section_access_delete_code(DB, section, ac))

LessonGenerateCode(lesson, student) ==
    \E v \in Drawn(lesson_activation_codes, lesson, student) :
        Commit("lesson_generate_code", lesson, student, "none",
               manage_lesson_access_generate_code(DB, lesson, student, v))

LessonRevoke(lesson, student) ==
    Commit("lesson_revoke", lesson, student, "none",
           manage_lesson_access_revoke(DB, lesson, student))

LessonActivate(lesson, student) ==
    Commit("lesson_activate", lesson, student, "none",
           manage_lesson_access_activate(DB, lesson, student))

LessonDeleteCode(lesson) ==
    \E ac \in lesson_activation_codes :
        Commit("lesson_delete_code", lesson, ac.student_id, ac.code,
               manage_lesson_access_delete_code(DB, lesson, ac))

NewLesson(lesson) ==
    /\ lesson \notin lessons
    /\ \A l \in lessons : l < lesson
    /\ Commit("new_lesson", LessonSection[lesson], "none", "none",
              new_lesson(DB, LessonSection[lesson], lesson))

EditSubject(subject, requires_code) ==
    Commit("edit_subject", subject, "none", "none", edit_subject(DB, subject, requires_code))

EditSection(section, requires_code) ==
    Commit("edit_section", section, "none", "none", edit_section(DB, section, requires_code))

Next ==
    \/ \E student \in Students, typed \in TypedCodes :
          \/ \E subject \in Subjects : RedeemSubject(subject, student, typed)
          \/ \E section \in Sections : RedeemSection(section, student, typed)
          \/ \E lesson \in lessons : RedeemLesson(lesson, student, typed)
    \/ \E subject \in Subjects :
          \/ SubjectToggle(subject)
          \/ SubjectDeleteCode(subject)
          \/ \E student \in Students :
                \/ SubjectGenerateCode(subject, student)
                \/ SubjectRevoke(subject, student)
                \/ SubjectActivate(subject, student)
    \/ \E section \in Sections :
          \/ SectionToggle(section)
          \/ SectionDeleteCode(section)
          \/ \E student \in Students :
                \/ SectionGenerateCode(section, student)
                \/ SectionRevoke(section, student)
                \/ SectionActivate(section, student)
    \/ \E lesson \in Lessons : NewLesson(lesson)
    \/ \E lesson \in lessons :
          \/ LessonDeleteCode(lesson)
          \/ \E student \in Students :
                \/ LessonGenerateCode(lesson, student)
                \/ LessonRevoke(lesson, student)
                \/ LessonActivate(lesson, student)
    \/ \E requires_code \in BOOLEAN :
          \/ \E subject \in Subjects : EditSubject(subject, requires_code)
          \/ \E section \in Sections : EditSection(section, requires_code)

Spec == Init /\ [][Next]_vars

\* ------------------------------------------------------------------------
\* Redemption requests served concurrently.  The server runs each request on
\* its own worker and the handlers use no transaction and no lock, so the
\* database operations of two requests interleave: each action below is one
\* database operation of a handler, with the Python between it and the next.
\* ------------------------------------------------------------------------
CodesAt(level) ==
    CASE level = "subject" -> subject_activation_codes
      [] level = "section" -> activation_codes
      [] level = "lesson" -> lesson_activation_codes

ActivationsAt(level) ==
    CASE level = "subject" -> subject_activations
      [] level = "section" -> section_activations
      [] level = "lesson" -> lesson_activations

ContentsAt(level) ==
    CASE level = "subject" -> Subjects
      [] level = "section" -> Sections
      [] level = "lesson" -> lessons

\* A write to the code collection of a level; nothing else is written.
SetCodes(level, coll) ==
    /\ subject_activation_codes' =
          IF level = "subject" THEN coll ELSE subject_activation_codes
    /\ activation_codes' = IF level = "section" THEN coll ELSE activation_codes
    /\ lesson_activation_codes' =
          IF level = "lesson" THEN coll ELSE lesson_activation_codes
    /\ UNCHANGED <<tree, lessons, flags, acts, last, ops>>

\* A write to the activation collection of a level; nothing else is written.
SetActivations(level, coll) ==
    /\ subject_activations' = IF level = "subject" THEN coll ELSE subject_activations
    /\ section_activations' = IF level = "section" THEN coll ELSE section_activations
    /\ lesson_activations' = IF level = "lesson" THEN coll ELSE lesson_activations
    /\ UNCHANGED <<tree, lessons, flags, codes, last, ops>>

\* X(<content>=c, student_id=x).save(): one more row, active by default
AddActive(coll, c, x) == [coll EXCEPT ![<<c, x>>].active = @ + 1]

\* Faulty variant of AtCascade: the cascade is given nothing to visit.
AtCascade_nothing_to_visit(r) ==
    [r EXCEPT !.pc = "cascade", !.sections_left = {}, !.lessons_left = {}]

\* The cascade the handler of a level calls, about to start.
AtCascade(r) ==
    [r EXCEPT
        !.pc = "cascade",
        !.sections_left = IF r.level = "subject" THEN SectionsOf(r.content) ELSE {},
        !.lessons_left = IF r.level = "section" THEN LessonsOf(lessons, r.content)
                         ELSE IF r.level = "lesson" THEN {r.content}
                         ELSE {}]

\* POST /<level>s/<content>/activate arrives with a valid form.
Post(w, level, content, student, typed) ==
    /\ reqs[w].pc = "idle"
    /\ reqs' = [reqs EXCEPT ![w] = [Idle EXCEPT !.pc = "lookup",
                                                !.level = level,
                                                !.content = content,
                                                !.student = student,
                                                !.code = StripUpper(typed)]]
    /\ UNCHANGED <<tree, lessons, flags, acts, codes, last, ops>>

\* The teacher posts action "activate" for a student on the access page of a
\* subject, section or lesson: the handler starts at the query for an active
\* row, then saves one if none was found and runs the cascade.
PostActivate(w, level, content, student) ==
    /\ reqs[w].pc = "idle"
    /\ reqs' = [reqs EXCEPT ![w] = [Idle EXCEPT !.pc = "existing",
                                                !.level = level,
                                                !.content = content,
                                                !.student = student]]
    /\ UNCHANGED <<tree, lessons, flags, acts, codes, last, ops>>

\* ac = Code.objects(<content>=..., student_id=..., code=code_value).first()
\* and the two checks on what was read: if not ac / if ac.is_used
FindCode(w) ==
    LET r == reqs[w]
        found == MatchingCodes(CodesAt(r.level), r.content, r.student, r.code)
    IN  /\ r.pc = "lookup"
        /\ reqs' = [reqs EXCEPT ![w] =
                        IF found = {}
                        THEN [r EXCEPT !.pc = "done", !.result = "invalid"]
                        ELSE IF (CHOOSE ac \in found : TRUE).is_used
                             THEN [r EXCEPT !.pc = "done", !.result = "used"]
                             ELSE [r EXCEPT !.pc = "mark"]]
        /\ UNCHANGED <<tree, lessons, flags, acts, codes, last, ops>>

\* ac.is_used = True; ac.used_at = utcnow(); ac.save()   (ac as it was read)
SaveCode(w) ==
    LET r == reqs[w]
    IN  /\ r.pc = "mark"
        /\ reqs' = [reqs EXCEPT ![w].pc = "existing"]
        /\ SetCodes(r.level, MarkUsed(CodesAt(r.level),
                                      NewCode(r.content, r.student, r.code)))

\* existing = Activation.objects(<content>=..., student_id=...,
\*                               active=True).first()
FindExisting(w) ==
    LET r == reqs[w]
    IN  /\ r.pc = "existing"
        /\ reqs' = [reqs EXCEPT ![w] =
                        IF ActiveRow(ActivationsAt(r.level), r.content, r.student)
                        THEN AtCascade(r)
                        ELSE [r EXCEPT !.pc = "insert"]]
        /\ UNCHANGED <<tree, lessons, flags, acts, codes, last, ops>>

\* if not existing: Activation(<content>=..., student_id=...).save()
SaveActivation(w) ==
    LET r == reqs[w]
    IN  /\ r.pc = "insert"
        /\ reqs' = [reqs EXCEPT ![w] = AtCascade(r)]
        /\ SetActivations(r.level,
                          AddActive(ActivationsAt(r.level), r.content, r.student))

\* One turn of the loops of cascade_subject_activation /
\* cascade_section_activation, or the body of cascade_lesson_activation: the
\* query for an active row of the next lesson (of the next section once the
\* lessons of the current one are done); when nothing is left the handler
\* flashes success and redirects.
CascadeFind(w) ==
    LET r == reqs[w]
    IN  /\ r.pc = "cascade"
        /\ reqs' = [reqs EXCEPT ![w] =
              IF r.lessons_left # {}
              THEN LET lesson == CHOOSE l \in r.lessons_left :
                                     \A m \in r.lessons_left : l <= m
                   IN  IF ActiveRow(lesson_activations, lesson, r.student)
                       THEN [r EXCEPT !.lessons_left = @ \ {lesson}]
                       ELSE [r EXCEPT !.lessons_left = @ \ {lesson},
                                      !.pc = "cascade_lesson", !.item = lesson]
              ELSE IF r.sections_left # {}
                   THEN LET section == CHOOSE t \in r.sections_left : TRUE
                        IN  IF ActiveRow(section_activations, section, r.student)
                            THEN [r EXCEPT !.sections_left = @ \ {section},
                                           !.lessons_left = LessonsOf(lessons, section)]
                            ELSE [r EXCEPT !.sections_left = @ \ {section},
                                           !.pc = "cascade_section", !.item = section]
                   ELSE [r EXCEPT !.pc = "done", !.result = "success"]]
        /\ UNCHANGED <<tree, lessons, flags, acts, codes, last, ops>>

\* sa = SectionActivation(section_id=..., student_id=...); sa.save()
CascadeSaveSection(w) ==
    LET r == reqs[w]
    IN  /\ r.pc = "cascade_section"
        /\ reqs' = [reqs EXCEPT ![w].pc = "cascade",
                                ![w].lessons_left = LessonsOf(lessons, r.item)]
        /\ SetActivations("section", AddActive(section_activations, r.item, r.student))

\* la = LessonActivation(lesson_id=..., student_id=...); la.save()
CascadeSaveLesson(w) ==
    LET r == reqs[w]
    IN  /\ r.pc = "cascade_lesson"
        /\ reqs' = [reqs EXCEPT ![w].pc = "cascade"]
        /\ SetActivations("lesson", AddActive(lesson_activations, r.item, r.student))

\* The databases the concurrent requests start from: every requires_code flag
\* of the stored tree is on (no redemption handler reads the flags), only
\* student u1 has been issued a code, and the teacher may have added lesson 4
\* after the code was issued.
ConcurrentDatabases ==
    LET gated == {db \in InitialDatabases :
                     /\ db.subject_requires_code["S1"]
                     /\ \A t \in Sections : db.section_requires_code[t]
                     /\ \A r \in db.subject_activation_codes : r.student_id = "u1"
                     /\ \A r \in db.activation_codes : r.student_id = "u1"}
    IN  gated \cup {new_lesson(db, LessonSection[4], 4).db : db \in gated}

InitConc ==
    /\ \E db \in ConcurrentDatabases :
          /\ lessons = db.lessons
          /\ subject_requires_code = db.subject_requires_code
          /\ section_requires_code = db.section_requires_code
          /\ subject_activations = db.subject_activations
          /\ section_activations = db.section_activations
          /\ lesson_activations = db.lesson_activations
          /\ subject_activation_codes = db.subject_activation_codes
          /\ activation_codes = db.activation_codes
          /\ lesson_activation_codes = db.lesson_activation_codes
    /\ subjects = Subjects
    /\ sections = Sections
    /\ tests = Tests
    /\ last = NoRequest
    /\ ops = 0
    /\ reqs = [w \in Workers |-> Idle]

NextConc ==
    \E w \in Workers :
        \/ \E level \in Levels, student \in Students, typed \in TypedCodes :
              \E content \in ContentsAt(level) :
                  Post(w, level, content, student, typed)
        \/ \E level \in Levels, student \in Students :
              \E content \in ContentsAt(level) :
                  PostActivate(w, level, content, student)
        \/ FindCode(w)
        \/ SaveCode(w)
        \/ FindExisting(w)
        \/ SaveActivation(w)
        \/ CascadeFind(w)
        \/ CascadeSaveSection(w)
        \/ CascadeSaveLesson(w)

SpecConc == InitConc /\ [][NextConc]_vars

\* ------------------------------------------------------------------------
\* teacher.py: deletion of content.  Each handler looks its document up,
\* deletes that one document and redirects; no ReferenceField of models.py
\* declares a reverse_delete_rule.  delete_section, delete_lesson and
\* delete_test read the parent reference of the document before deleting it:
\* when the parent is gone the document layer either hands back the bare
\* reference (the document is deleted) or raises DoesNotExist (the document
\* stays), depending on its version.
\* ------------------------------------------------------------------------
\* teacher.py: delete_subject; stored is the collection subjects
delete_subject(stored, subject) == stored \ {subject}

\* teacher.py: delete_section; the outcomes for the collection sections
delete_section(stored, section, parents) ==
    IF SectionSubject[section] \in parents
    THEN {stored \ {section}}
    ELSE {stored \ {section}, stored}

\* teacher.py: delete_lesson; the outcomes for the collection lessons
delete_lesson(stored, lesson, parents) ==
    IF LessonSection[lesson] \in parents
    THEN {stored \ {lesson}}
    ELSE {stored \ {lesson}, stored}

\* teacher.py: delete_test; the outcomes for the collection tests
delete_test(stored, test, parents, ls) ==
    IF TestSection[test] \in parents
       /\ (TestLesson[test] = NoLesson \/ TestLesson[test] \in ls)
    THEN {stored \ {test}}
    ELSE {stored \ {test}, stored}

DeleteSubject(subject) ==
    /\ subject \in subjects
    /\ subjects' = delete_subject(subjects, subject)
    /\ UNCHANGED <<sections, tests, lessons, flags, acts, codes, last, ops, reqs>>

DeleteSection(section) ==
    /\ section \in sections
    /\ sections' \in delete_section(sections, section, subjects)
    /\ UNCHANGED <<subjects, tests, lessons, flags, acts, codes, last, ops, reqs>>

DeleteLesson(lesson) ==
    /\ lesson \in lessons
    /\ lessons' \in delete_lesson(lessons, lesson, sections)
    /\ UNCHANGED <<tree, flags, acts, codes, last, ops, reqs>>

DeleteTest(test) ==
    /\ test \in tests
    /\ tests' \in delete_test(tests, test, sections, lessons)
    /\ UNCHANGED <<subjects, sections, lessons, flags, acts, codes, last, ops, reqs>>

\* The content tree as the creation forms stored it, before any code was
\* issued: the requires_code flags at their default.
InitTree ==
    LET db == Blank([c \in Subjects |-> FALSE], [t \in Sections |-> FALSE])
    IN  /\ lessons = db.lessons
        /\ subject_requires_code = db.subject_requires_code
        /\ section_requires_code = db.section_requires_code
        /\ subject_activations = db.subject_activations
        /\ section_activations = db.section_activations
        /\ lesson_activations = db.lesson_activations
        /\ subject_activation_codes = db.subject_activation_codes
        /\ activation_codes = db.activation_codes
        /\ lesson_activation_codes = db.lesson_activation_codes
        /\ subjects = Subjects
        /\ sections = Sections
        /\ tests = Tests
        /\ last = NoRequest
        /\ ops = 0
        /\ reqs = [w \in Workers |-> Idle]

NextTree ==
    \/ \E subject \in Subjects : DeleteSubject(subject)
    \/ \E section \in Sections : DeleteSection(section)
    \/ \E lesson \in Lessons : DeleteLesson(lesson)
    \/ \E test \in Tests : DeleteTest(test)

SpecTree == InitTree /\ [][NextTree]_vars

\* ------------------------------------------------------------------------
\* Vocabulary of the properties
\* ------------------------------------------------------------------------
\* The section-wide tests of a section: [t for t in section.tests
\*                                        if t.lesson_id is None]
SectionWideTests(section) == {x \in TestsOf(section) : TestLesson[x] = NoLesson}

\* The lowest id of a non-empty set of ids.
LowestId(ids) == CHOOSE m \in ids : \A n \in ids : m <= n

\* The student has no activation row, active or not, in any collection.
NoActivationRow(student) ==
    /\ \A c \in Subjects : subject_activations[<<c, student>>] = NoRows
    /\ \A c \in Sections : section_activations[<<c, student>>] = NoRows
    /\ \A c \in Lessons : lesson_activations[<<c, student>>] = NoRows

LessonGrantOps == {"activate_lesson", "lesson_activate", "lesson_generate_code"}

\* ------------------------------------------------------------------------
\* C1.  An active SubjectActivation opens the section, every lesson and
\* every test (lesson-linked or section-wide) of every section of the
\* subject, whatever the requires_code flags and the lower-level rows are.
\* ------------------------------------------------------------------------
C1_SubjectActivationOpensAll ==
    \A section \in Sections, student \in Students :
        ActiveRow(subject_activations, SectionSubject[section], student) =>
            /\ ctx_section_open(section, student)
            /\ \A lesson \in LessonsOf(lessons, section) :
                  lesson_open(section, student, lesson)
            /\ \A test \in TestsOf(section) : test_open(section, student, test)

\* Subject and section both require a code, the student's subject activation
\* is active, the section activation has been revoked.
C1_Witness ==
    \E section \in Sections, student \in Students :
        /\ ActiveRow(subject_activations, SectionSubject[section], student)
        /\ subject_requires_code[SectionSubject[section]]
        /\ section_requires_code[section]
        /\ ~ActiveRow(section_activations, section, student)
        /\ SectionWideTests(section) # {}
        /\ LessonsOf(lessons, section) # {}

\* ------------------------------------------------------------------------
\* C2.  In every section with a lesson, the lesson with the lowest id is open
\* for every student.
\* ------------------------------------------------------------------------
C2_FirstLessonOpen ==
    \A section \in Sections, student \in Students :
        LessonsOf(lessons, section) # {} =>
            lesson_open(section, student, LowestId(LessonsOf(lessons, section)))

\* ------------------------------------------------------------------------
\* C3.  In every section with a section-wide test, the section-wide test with
\* the lowest id is open for every student who has no activation row.
\* ------------------------------------------------------------------------
C3_FirstSectionWideTestOpen ==
    \A section \in Sections, student \in Students :
        (SectionWideTests(section) # {} /\ NoActivationRow(student)) =>
            test_open(section, student, LowestId(SectionWideTests(section)))

\* ------------------------------------------------------------------------
\* C4.  A step that changes nothing but lesson activations (and the stored
\* lessons) leaves test_open of every section-wide test as it was, for every
\* student: no lesson activation turns a section-wide test open.
\* ------------------------------------------------------------------------
C4_LessonActivationNeverDecidesSectionWideTest ==
    [][UNCHANGED <<flags, subject_activations, section_activations>> =>
          \A section \in Sections, student \in Students :
              \A test \in SectionWideTests(section) :
                  test_open(section, student, test)'
                      = test_open(section, student, test)]_vars

\* A lesson activation has just been granted in a section one of whose
\* section-wide tests is closed to the student.
C4_Witness ==
    /\ last.op \in LessonGrantOps
    /\ last.result = "success"
    /\ ActiveRow(lesson_activations, last.content, last.student)
    /\ \E test \in SectionWideTests(LessonSection[last.content]) :
          ~test_open(LessonSection[last.content], last.student, test)

C6_SectionActivationOpensSection ==
    \A section \in Sections, student \in Students :
        ActiveRow(section_activations, section, student) =>
            /\ ctx_section_open(section, student)
            /\ \A lesson \in LessonsOf(lessons, section) :
                  lesson_open(section, student, lesson)
            /\ \A test \in TestsOf(section) : test_open(section, student, test)

\* A lesson has just been added to a section that is active for a student
\* whose subject requires a code and is not activated: the student has no
\* LessonActivation row for it.
C6_Witness ==
    /\ last.op = "new_lesson"
    /\ \E student \in Students, lesson \in LessonsOf(lessons, last.content) :
          /\ ActiveRow(section_activations, last.content, student)
          /\ subject_requires_code[SectionSubject[last.content]]
          /\ ~ActiveRow(subject_activations, SectionSubject[last.content], student)
          /\ lesson_activations[<<lesson, student>>] = NoRows

\* ------------------------------------------------------------------------
\* Vocabulary of the redemption properties
\* ------------------------------------------------------------------------
\* The step completes the request op(content, student, code).
Completes(op, content, student, code) ==
    /\ ops' = ops + 1
    /\ last'.op = op
    /\ last'.content = content
    /\ last'.student = student
    /\ last'.code = code

UsedRow(c, x, v) == [content |-> c, student_id |-> x, code |-> v, is_used |-> TRUE]
UnusedRow(c, x, v) == [content |-> c, student_id |-> x, code |-> v, is_used |-> FALSE]

\* The subject is closed to the student: it requires a code and the student
\* has no active SubjectActivation.
SubjectClosed(subject, student) ==
    subject_requires_code[subject] /\ ~ActiveRow(subject_activations, subject, student)

\* What a successful subject redemption leaves behind.
SubjectGranted(subject, student, code) ==
    /\ UsedRow(subject, student, code) \in subject_activation_codes
    /\ UnusedRow(subject, student, code) \notin subject_activation_codes
    /\ ActiveRow(subject_activations, subject, student)
    /\ \A section \in SectionsOf(subject) :
          /\ ActiveRow(section_activations, section, student)
          /\ ctx_subject_open(section, student)
          /\ ctx_section_open(section, student)
          /\ \A lesson \in LessonsOf(lessons, section) :
                /\ ActiveRow(lesson_activations, lesson, student)
                /\ lesson_open(section, student, lesson)
          /\ \A test \in TestsOf(section) : test_open(section, student, test)

\* What a successful section redemption leaves behind.
SectionGranted(section, student, code) ==
    /\ UsedRow(section, student, code) \in activation_codes
    /\ UnusedRow(section, student, code) \notin activation_codes
    /\ ActiveRow(section_activations, section, student)
    /\ \A lesson \in LessonsOf(lessons, section) :
          ActiveRow(lesson_activations, lesson, student)
    /\ ctx_section_open(section, student)

\* What a successful lesson redemption leaves behind.
LessonGranted(lesson, student, code) ==
    /\ UsedRow(lesson, student, code) \in lesson_activation_codes
    /\ UnusedRow(lesson, student, code) \notin lesson_activation_codes
    /\ ActiveRow(lesson_activations, lesson, student)
    /\ lesson_open(LessonSection[lesson], student, lesson)

C8_UsedCodeChangesNothing ==
    [][\A student \in Students, code \in CodeValues :
          /\ \A subject \in Subjects :
                (/\ Completes("activate_subject", subject, student, code)
                 /\ UsedRow(subject, student, code) \in subject_activation_codes)
                    => /\ last'.result = "used"
                       /\ UNCHANGED <<lessons, flags, acts, codes>>
          /\ \A section \in Sections :
                (/\ Completes("activate_section", section, student, code)
                 /\ UsedRow(section, student, code) \in activation_codes)
                    => /\ last'.result = "used"
                       /\ UNCHANGED <<lessons, flags, acts, codes>>
          /\ \A lesson \in lessons :
                (/\ Completes("activate_lesson", lesson, student, code)
                 /\ UsedRow(lesson, student, code) \in lesson_activation_codes)
                    => /\ last'.result = "used"
                       /\ UNCHANGED <<lessons, flags, acts, codes>>]_vars

\* A used section code has just been presented again by a student whose
\* section activation was revoked after the first redemption.
C8_Witness ==
    /\ last.op = "activate_section"
    /\ last.result = "used"
    /\ UsedRow(last.content, last.student, last.code) \in activation_codes
    /\ section_activations[<<last.content, last.student>>].inactive > 0
    /\ ~ActiveRow(section_activations, last.content, last.student)

\* ------------------------------------------------------------------------
\* C9.  A redemption whose (content, student, code) matches no code row
\* reports the invalid-code outcome and changes no stored data, whether the
\* code value belongs to another student or content or exists nowhere.
\* ------------------------------------------------------------------------
C9_UnmatchedCodeIsInvalid ==
    [][\A student \in Students, code \in CodeValues :
          /\ \A subject \in Subjects :
                (/\ Completes("activate_subject", subject, student, code)
                 /\ UsedRow(subject, student, code) \notin subject_activation_codes
                 /\ UnusedRow(subject, student, code) \notin subject_activation_codes)
                    => /\ last'.result = "invalid"
                       /\ UNCHANGED <<lessons, flags, acts, codes>>
          /\ \A section \in Sections :
                (/\ Completes("activate_section", section, student, code)
                 /\ UsedRow(section, student, code) \notin activation_codes
                 /\ UnusedRow(section, student, code) \notin activation_codes)
                    => /\ last'.result = "invalid"
                       /\ UNCHANGED <<lessons, flags, acts, codes>>
          /\ \A lesson \in lessons :
                (/\ Completes("activate_lesson", lesson, student, code)
                 /\ UsedRow(lesson, student, code) \notin lesson_activation_codes
                 /\ UnusedRow(lesson, student, code) \notin lesson_activation_codes)
                    => /\ last'.result = "invalid"
                       /\ UNCHANGED <<lessons, flags, acts, codes>>]_vars

\* A student has just presented, for a section, a code value that is stored
\* unused for the same section but was issued to another student.
C9_Witness ==
    /\ last.op = "activate_section"
    /\ last.result = "invalid"
    /\ \E other \in Students \ {last.student} :
          UnusedRow(last.content, other, last.code) \in activation_codes

\* ------------------------------------------------------------------------
\* C10.  When two redemption requests for the same unused code are served
\* concurrently, exactly one reports success; the other finds the code used
\* and reports the already-used outcome.
\* ------------------------------------------------------------------------
C10_ExactlyOneConcurrentRedemptionSucceeds ==
    \A w \in Workers, v \in Workers :
        (/\ w # v
         /\ reqs[w].pc = "done"
         /\ reqs[v].pc = "done"
         /\ reqs[w].level = reqs[v].level
         /\ reqs[w].content = reqs[v].content
         /\ reqs[w].student = reqs[v].student
         /\ reqs[w].code = reqs[v].code
         /\ reqs[w].code \in CodeValues
         /\ reqs[w].result = "success")
            => reqs[v].result = "used"

\* ------------------------------------------------------------------------
\* C11.  Whatever the interleaving of two concurrent requests that activate
\* the same (content, student) pair, no pair ever has two activation rows
\* with active = true, at any of the three levels.
\* ------------------------------------------------------------------------
C11_NoDuplicateActiveRowUnderConcurrency ==
    /\ \A k \in DOMAIN subject_activations : subject_activations[k].active <= 1
    /\ \A k \in DOMAIN section_activations : section_activations[k].active <= 1
    /\ \A k \in DOMAIN lesson_activations : lesson_activations[k].active <= 1

\* ------------------------------------------------------------------------
\* Vocabulary of the issuance properties
\* ------------------------------------------------------------------------
\* The code rows of a (content, student) pair, and the unused ones.
CodesFor(coll, c, x) == {r \in coll : r.content = c /\ r.student_id = x}
UnusedCodesFor(coll, c, x) == {r \in CodesFor(coll, c, x) : ~r.is_used}

\* The step completes the teacher's request op for (content, student).
CompletesFor(op, content, student) ==
    /\ ops' = ops + 1
    /\ last'.op = op
    /\ last'.content = content
    /\ last'.student = student

\* ------------------------------------------------------------------------
\* C12.  A generate_code request for a pair that already has an unused code
\* is rejected and leaves the code collection as it was, with exactly one
\* code row for the pair; and no pair ever has two unused codes.
\* ------------------------------------------------------------------------
C12_DuplicateIssuanceRejected ==
    /\ [](\A student \in Students :
            /\ \A subject \in Subjects :
                  Cardinality(UnusedCodesFor(subject_activation_codes, subject, student)) <= 1
            /\ \A section \in Sections :
                  Cardinality(UnusedCodesFor(activation_codes, section, student)) <= 1
            /\ \A lesson \in Lessons :
                  Cardinality(UnusedCodesFor(lesson_activation_codes, lesson, student)) <= 1)
    /\ [][\A student \in Students :
            /\ \A subject \in Subjects :
                  (/\ CompletesFor("subject_generate_code", subject, student)
                   /\ UnusedCodesFor(subject_activation_codes, subject, student) # {})
                      => /\ last'.result = "rejected"
                         /\ UNCHANGED codes
                         /\ Cardinality(CodesFor(subject_activation_codes', subject, student)) = 1
            /\ \A section \in Sections :
                  (/\ CompletesFor("section_generate_code", section, student)
                   /\ UnusedCodesFor(activation_codes, section, student) # {})
                      => /\ last'.result = "rejected"
                         /\ UNCHANGED codes
                         /\ Cardinality(CodesFor(activation_codes', section, student)) = 1
            /\ \A lesson \in lessons :
                  (/\ CompletesFor("lesson_generate_code", lesson, student)
                   /\ UnusedCodesFor(lesson_activation_codes, lesson, student) # {})
                      => /\ last'.result = "rejected"
                         /\ UNCHANGED codes
                         /\ Cardinality(CodesFor(lesson_activation_codes', lesson, student)) = 1]_vars

\* A second generate_code for a (section, student) pair holding an unused
\* code has just been rejected; the pair has exactly that one code row.
C12_Witness ==
    /\ last.op = "section_generate_code"
    /\ last.result = "rejected"
    /\ Cardinality(CodesFor(activation_codes, last.content, last.student)) = 1
    /\ UnusedCodesFor(activation_codes, last.content, last.student) # {}

\* ------------------------------------------------------------------------
\* C13.  When a request that runs cascade_subject_activation(subject, student)
\* has completed, the student has an active SectionActivation for every
\* section of the subject and an active LessonActivation for every lesson of
\* every such section; and so has the database the cascade returns from any
\* reachable database.
\* ------------------------------------------------------------------------
SubjectGrantOps == {"activate_subject", "subject_activate", "subject_generate_code"}

SubjectCascaded(db, subject, student) ==
    \A section \in SectionsOf(subject) :
        /\ ActiveRow(db.section_activations, section, student)
        /\ \A lesson \in LessonsOf(db.lessons, section) :
              ActiveRow(db.lesson_activations, lesson, student)

C13_SubjectCascadeReachesEveryDescendant ==
    /\ (last.op \in SubjectGrantOps /\ last.result = "success")
          => SubjectCascaded(DB, last.content, last.student)
    /\ \A subject \in Subjects, student \in Students :
          SubjectCascaded(cascade_subject_activation(DB, subject, student),
                          subject, student)

\* The teacher has just activated a subject for a student whose section
\* activations had all been revoked: each section of the subject has a new
\* active row next to the inactive one.
C13_Witness ==
    /\ last.op = "subject_activate"
    /\ last.result = "success"
    /\ SectionsOf(last.content) # {}
    /\ \A section \in SectionsOf(last.content) :
          /\ LessonsOf(lessons, section) # {}
          /\ section_activations[<<section, last.student>>].active = 1
    /\ \E section \in SectionsOf(last.content) :
          section_activations[<<section, last.student>>].inactive > 0

\* ------------------------------------------------------------------------
\* C14.  The cascades are idempotent: from any reachable database, running
\* cascade_section_activation (or cascade_subject_activation) twice for the
\* same (content, student) gives the same activation rows as running it
\* once, and a run leaves every row that was already active as it was.
\* ------------------------------------------------------------------------
KeepsActiveRows(before, after, student) ==
    /\ \A c \in Sections :
          ActiveRow(before.section_activations, c, student)
              => after.section_activations[<<c, student>>]
                     = before.section_activations[<<c, student>>]
    /\ \A c \in Lessons :
          ActiveRow(before.lesson_activations, c, student)
              => after.lesson_activations[<<c, student>>]
                     = before.lesson_activations[<<c, student>>]

C14_CascadesIdempotent ==
    \A student \in Students :
        /\ \A section \in Sections :
              LET once == cascade_section_activation(DB, section, student)
              IN  /\ cascade_section_activation(once, section, student) = once
                  /\ KeepsActiveRows(DB, once, student)
        /\ \A subject \in Subjects :
              LET once == cascade_subject_activation(DB, subject, student)
              IN  /\ cascade_subject_activation(once, subject, student) = once
                  /\ KeepsActiveRows(DB, once, student)

\* A database in which the section cascade has work to do for a student who
\* already has an active LessonActivation in the section: some rows are
\* created, some must be left alone.
C14_Witness ==
    \E student \in Students, section \in Sections :
        /\ cascade_section_activation(DB, section, student) # DB
        /\ \E lesson \in LessonsOf(lessons, section) :
              ActiveRow(lesson_activations, lesson, student)

\* ------------------------------------------------------------------------
\* C15.  A revoke request for (subject, student) leaves the student with no
\* active SubjectActivation for the subject, no active
\* SectionActivation for any of its sections and no active LessonActivation
\* for any lesson of those sections.
\* ------------------------------------------------------------------------
C15_SubjectRevokeDeactivatesAllLevels ==
    last.op = "subject_revoke" =>
        /\ ~ActiveRow(subject_activations, last.content, last.student)
        /\ \A section \in SectionsOf(last.content) :
              /\ ~ActiveRow(section_activations, section, last.student)
              /\ \A lesson \in LessonsOf(lessons, section) :
                    ~ActiveRow(lesson_activations, lesson, last.student)

\* ------------------------------------------------------------------------
\* C16.  Round trip of a section activation: when section T has been
\* activated for student X with its cascade (X has an active row for T and
\* for every lesson of T, and no subject activation) and the teacher then
\* revokes it, section_open is back to what it is without any activation,
\* every LessonActivation of X in T is inactive and lesson_open of every
\* lesson of T is back to what it is without any activation.
\* ------------------------------------------------------------------------
C16_SectionRevokeRoundTrip ==
    [][\A student \in Students, section \in Sections :
          (/\ CompletesFor("section_revoke", section, student)
           /\ ~ActiveRow(subject_activations, SectionSubject[section], student)
           /\ ActiveRow(section_activations, section, student)
           /\ \A lesson \in LessonsOf(lessons, section) :
                 ActiveRow(lesson_activations, lesson, student))
             => LET unactivated == /\ ~subject_requires_code[SectionSubject[section]]
                                   /\ ~section_requires_code[section]
                IN  /\ ctx_section_open(section, student)' = unactivated
                    /\ \A lesson \in LessonsOf(lessons, section) :
                          /\ ~ActiveRow(lesson_activations', lesson, student)
                          /\ lesson_open(section, student, lesson)' = unactivated]_vars

\* ------------------------------------------------------------------------
\* C17.  After the teacher's toggle has turned requires_code of a subject
\* (or section) on and the lock-for-all has run, no student has an active
\* activation at that level or below.
\* ------------------------------------------------------------------------
C17_LockForAllLeavesNoActiveRow ==
    /\ (last.op = "subject_toggle_requires_code" /\ subject_requires_code[last.content])
          => \A student \in Students :
                /\ ~ActiveRow(subject_activations, last.content, student)
                /\ \A section \in SectionsOf(last.content) :
                      /\ ~ActiveRow(section_activations, section, student)
                      /\ \A lesson \in LessonsOf(lessons, section) :
                            ~ActiveRow(lesson_activations, lesson, student)
    /\ (last.op = "section_toggle_requires_code" /\ section_requires_code[last.content])
          => \A student \in Students :
                /\ ~ActiveRow(section_activations, last.content, student)
                /\ \A lesson \in LessonsOf(lessons, last.content) :
                      ~ActiveRow(lesson_activations, lesson, student)

\* ------------------------------------------------------------------------
\* C18.  A code only goes from unused to used: no request of a student or of
\* the teacher turns a used code row into an unused one, and presenting a
\* used code never ends in a successful redemption.
\* ------------------------------------------------------------------------
C18_UsedCodeStaysUsed ==
    [][\A student \in Students, code \in CodeValues :
          /\ \A subject \in Subjects :
                UsedRow(subject, student, code) \in subject_activation_codes
                   => /\ UnusedRow(subject, student, code) \notin subject_activation_codes'
                      /\ Completes("activate_subject", subject, student, code)
                            => last'.result # "success"
          /\ \A section \in Sections :
                UsedRow(section, student, code) \in activation_codes
                   => /\ UnusedRow(section, student, code) \notin activation_codes'
                      /\ Completes("activate_section", section, student, code)
                            => last'.result # "success"
          /\ \A lesson \in Lessons :
                UsedRow(lesson, student, code) \in lesson_activation_codes
                   => /\ UnusedRow(lesson, student, code) \notin lesson_activation_codes'
                      /\ Completes("activate_lesson", lesson, student, code)
                            => last'.result # "success"]_vars

\* A used subject code has just been presented again while the activation it
\* granted is still active: the code row is still there, used.
C18_Witness ==
    /\ last.op = "activate_subject"
    /\ last.result = "used"
    /\ UsedRow(last.content, last.student, last.code) \in subject_activation_codes
    /\ ActiveRow(subject_activations, last.content, last.student)

\* ------------------------------------------------------------------------
\* C19.  section_open is the Policy B formula on every combination of inputs:
\* true if the subject is active for the student; otherwise, under a subject
\* that requires a code, exactly section_active, whatever the section's own
\* requires_code; otherwise section_active or not section.requires_code.
\* subject_open is subject_active or not subject.requires_code.
\* ------------------------------------------------------------------------
C19_SectionOpenIsPolicyB ==
    \A section \in Sections, student \in Students :
        LET subject == SectionSubject[section]
            subject_active == ActiveRow(subject_activations, subject, student)
            section_active == ActiveRow(section_activations, section, student)
        IN  /\ subject_active => ctx_section_open(section, student)
            /\ (~subject_active /\ subject_requires_code[subject])
                  => (ctx_section_open(section, student) <=> section_active)
            /\ (~subject_active /\ ~subject_requires_code[subject])
                  => (ctx_section_open(section, student)
                         <=> (section_active \/ ~section_requires_code[section]))
            /\ ctx_subject_open(section, student)
                  <=> (subject_active \/ ~subject_requires_code[subject])

\* The subject requires a code, the section does not, and the student has
\* neither activation: the subject gate overrides the section's default.
C19_Witness ==
    \E section \in Sections, student \in Students :
        /\ subject_requires_code[SectionSubject[section]]
        /\ ~section_requires_code[section]
        /\ ~ActiveRow(subject_activations, SectionSubject[section], student)
        /\ ~ActiveRow(section_activations, section, student)
        /\ ~ctx_section_open(section, student)

C21_AtMostOneActiveRowPerPair ==
    \A student \in Students :
        /\ \A subject \in Subjects :
              subject_activations[<<subject, student>>].active \in {0, 1}
        /\ \A section \in Sections :
              section_activations[<<section, student>>].active \in {0, 1}
        /\ \A lesson \in Lessons :
              lesson_activations[<<lesson, student>>].active \in {0, 1}

\* A grant has just completed for a pair that was activated and revoked
\* before (a stale inactive row next to the active one), and the cascade met
\* a descendant that was still active.
C21_Witness ==
    /\ last.op \in {"subject_activate", "section_activate", "activate_section"}
    /\ last.result = "success"
    /\ LET coll == IF last.op = "subject_activate"
                   THEN subject_activations ELSE section_activations
       IN  /\ coll[<<last.content, last.student>>].active = 1
           /\ coll[<<last.content, last.student>>].inactive > 0
    /\ \E lesson \in lessons : lesson_activations[<<lesson, last.student>>].active = 1

\* ------------------------------------------------------------------------
\* C22.  From any reachable database, revoke_subject_activation(subject, X)
\* and revoke_section_activation(section, X) leave as they were every
\* activation row of every student other than X and every activation row of
\* X that belongs to another subject (respectively another section).
\* ------------------------------------------------------------------------
\* The rows of coll outside (scope, student) are the same in before and after.
RowsOutsideKept(before, after, scope, student) ==
    \A k \in DOMAIN before :
        (k[2] # student \/ k[1] \notin scope) => after[k] = before[k]

C22_RevokeTouchesOnlyItsPair ==
    \A student \in Students :
        /\ \A subject \in Subjects :
              LET after == revoke_subject_activation(DB, subject, student).db
              IN  /\ RowsOutsideKept(subject_activations, after.subject_activations,
                                     {subject}, student)
                  /\ RowsOutsideKept(section_activations, after.section_activations,
                                     {t \in Sections : SectionSubject[t] = subject}, student)
                  /\ RowsOutsideKept(lesson_activations, after.lesson_activations,
                                     {l \in Lessons : SectionSubject[LessonSection[l]] = subject},
                                     student)
        /\ \A section \in Sections :
              LET after == revoke_section_activation(DB, section, student).db
              IN  /\ after.subject_activations = subject_activations
                  /\ RowsOutsideKept(section_activations, after.section_activations,
                                     {section}, student)
                  /\ RowsOutsideKept(lesson_activations, after.lesson_activations,
                                     {l \in Lessons : LessonSection[l] = section}, student)

\* Student u1 holds active rows for both subjects and for both sections,
\* student u2 holds active rows for S1 and its sections: revoking S1 (or T1)
\* for u1 has rows to turn off and rows of both kinds to leave alone.
C22_Witness ==
    /\ ActiveRow(subject_activations, "S1", "u1")
    /\ ActiveRow(subject_activations, "S2", "u1")
    /\ ActiveRow(subject_activations, "S1", "u2")
    /\ \A section \in Sections :
          /\ ActiveRow(section_activations, section, "u1")
          /\ ActiveRow(section_activations, section, "u2")
    /\ revoke_subject_activation(DB, "S1", "u1").db # DB
    /\ revoke_section_activation(DB, "T1", "u1").db # DB

\* ------------------------------------------------------------------------
\* C23.  Every request that turns requires_code of a subject or of a section
\* from false to true (the access-page toggle and the edit form alike) runs
\* the lock-for-all of that level: when the request has completed, no
\* SubjectActivation of the subject (no SectionActivation of the section, or
\* of the sections of the subject) granted before the flip is still active.
\* ------------------------------------------------------------------------
C23_FlagTurnedOnLocksForAll ==
    [][/\ \A subject \in Subjects :
             (~subject_requires_code[subject] /\ subject_requires_code'[subject])
                => \A student \in Students :
                      /\ ~ActiveRow(subject_activations', subject, student)
                      /\ \A section \in SectionsOf(subject) :
                            ~ActiveRow(section_activations', section, student)
       /\ \A section \in Sections :
             (~section_requires_code[section] /\ section_requires_code'[section])
                => \A student \in Students :
                      ~ActiveRow(section_activations', section, student)]_vars

\* ------------------------------------------------------------------------
\* C24.  Issuing a code for a (content, student) pair creates no activation
\* row: a generate_code request leaves the three activation collections as
\* they were, so content that was closed to the student is still closed when
\* the request has completed.
\* ------------------------------------------------------------------------
IssueOps == {"subject_generate_code", "section_generate_code", "lesson_generate_code"}

C24_IssuanceCreatesNoActivation ==
    [][(ops' = ops + 1 /\ last'.op \in IssueOps) =>
          /\ UNCHANGED acts
          /\ \A section \in Sections, student \in Students :
                /\ ~ctx_section_open(section, student)
                      => ~ctx_section_open(section, student)'
                /\ \A lesson \in LessonsOf(lessons, section) :
                      ~lesson_open(section, student, lesson)
                         => ~lesson_open(section, student, lesson)']_vars

\* ------------------------------------------------------------------------
\* C25.  A code is never marked used without the activation of its pair
\* being ensured, also when the request is interrupted between two of its
\* steps: in every state in which a code row has just become used, the
\* (content, student) pair of the code has an active activation row.
\* ------------------------------------------------------------------------
C25_UsedCodeHasGrantedActivation ==
    [][\A student \in Students, code \in CodeValues :
          /\ \A subject \in Subjects :
                (/\ UnusedRow(subject, student, code) \in subject_activation_codes
                 /\ UsedRow(subject, student, code) \in subject_activation_codes')
                    => ActiveRow(subject_activations', subject, student)
          /\ \A section \in Sections :
                (/\ UnusedRow(section, student, code) \in activation_codes
                 /\ UsedRow(section, student, code) \in activation_codes')
                    => ActiveRow(section_activations', section, student)
          /\ \A lesson \in Lessons :
                (/\ UnusedRow(lesson, student, code) \in lesson_activation_codes
                 /\ UsedRow(lesson, student, code) \in lesson_activation_codes')
                    => ActiveRow(lesson_activations', lesson, student)]_vars

\* ------------------------------------------------------------------------
\* C26.  revoke_subject_activation, revoke_section_activation,
\* lock_subject_access_for_all and lock_section_access_for_all are idempotent
\* no-ops on already-revoked state: from any reachable database, a call that
\* finds no matching active row changes nothing and completes without an
\* error, and a second call leaves the database the first one left.
\* ------------------------------------------------------------------------
\* No row the revoke / lock of (subject, students) is meant to turn off is
\* active.
NothingActiveUnderSubject(subject, students) ==
    \A student \in students :
        /\ ~ActiveRow(subject_activations, subject, student)
        /\ \A section \in SectionsOf(subject) :
              /\ ~ActiveRow(section_activations, section, student)
              /\ \A lesson \in LessonsOf(lessons, section) :
                    ~ActiveRow(lesson_activations, lesson, student)

NothingActiveUnderSection(section, students) ==
    \A student \in students :
        /\ ~ActiveRow(section_activations, section, student)
        /\ \A lesson \in LessonsOf(lessons, section) :
              ~ActiveRow(lesson_activations, lesson, student)

C26_RevokeAndLockIdempotent ==
    /\ \A subject \in Subjects, student \in Students :
          LET once == revoke_subject_activation(DB, subject, student)
          IN  /\ revoke_subject_activation(once.db, subject, student).db = once.db
              /\ NothingActiveUnderSubject(subject, {student})
                    => (once.db = DB /\ ~once.raised)
    /\ \A section \in Sections, student \in Students :
          LET once == revoke_section_activation(DB, section, student)
          IN  /\ revoke_section_activation(once.db, section, student).db = once.db
              /\ NothingActiveUnderSection(section, {student})
                    => (once.db = DB /\ ~once.raised)
    /\ \A subject \in Subjects :
          LET once == lock_subject_access_for_all(DB, subject)
          IN  /\ lock_subject_access_for_all(once.db, subject).db = once.db
              /\ NothingActiveUnderSubject(subject, Students)
                    => (once.db = DB /\ ~once.raised)
    /\ \A section \in Sections :
          LET once == lock_section_access_for_all(DB, section)
          IN  /\ lock_section_access_for_all(once.db, section).db = once.db
              /\ NothingActiveUnderSection(section, Students)
                    => (once.db = DB /\ ~once.raised)

\* ------------------------------------------------------------------------
\* C27.  Ordering of a grant, in every redemption and every teacher activate
\* request: while the request is in its cascade the (content, student) pair
\* it grants has an active activation row, and when the request has reported
\* success every descendant of the content has an active row for the
\* student.
\* ------------------------------------------------------------------------
\* The rows the cascade of request r has to leave behind.
Cascaded(r) ==
    CASE r.level = "subject" -> SubjectCascaded(DB, r.content, r.student)
      [] r.level = "section" ->
            \A lesson \in LessonsOf(lessons, r.content) :
                ActiveRow(lesson_activations, lesson, r.student)
      [] r.level = "lesson" -> ActiveRow(lesson_activations, r.content, r.student)

C27_GrantBeforeCascadeBeforeSuccess ==
    \A w \in Workers :
        /\ reqs[w].pc \in {"cascade", "cascade_section", "cascade_lesson"}
              => ActiveRow(ActivationsAt(reqs[w].level), reqs[w].content, reqs[w].student)
        /\ (reqs[w].pc = "done" /\ reqs[w].result = "success")
              => /\ ActiveRow(ActivationsAt(reqs[w].level), reqs[w].content, reqs[w].student)
                 /\ Cascaded(reqs[w])

\* A subject redemption has reported success for a student who had no row
\* for lesson 4, added after the code was issued: the cascade created it.
C27_Witness ==
    \E w \in Workers :
        /\ reqs[w].pc = "done"
        /\ reqs[w].result = "success"
        /\ reqs[w].level = "subject"
        /\ reqs[w].code \in CodeValues
        /\ 4 \in lessons
        /\ lesson_activations[<<4, reqs[w].student>>].active > 0

\* ------------------------------------------------------------------------
\* C28.  Deleting a parent deletes its descendants: no stored section
\* references a subject that is not stored, no stored lesson references a
\* section that is not stored, and no stored test references a section or a
\* lesson that is not stored.
\* ------------------------------------------------------------------------
C28_DeleteCascadesToChildren ==
    /\ \A section \in sections : SectionSubject[section] \in subjects
    /\ \A lesson \in lessons : LessonSection[lesson] \in sections
    /\ \A test \in tests :
          /\ TestSection[test] \in sections
          /\ TestLesson[test] # NoLesson => TestLesson[test] \in lessons

\* ------------------------------------------------------------------------
\* C29.  A generate_code request for a (content, student) pair that has any
\* code row, used or unused, is rejected and stores nothing; so a pair never
\* has more than one code row, and a pair whose code has been redeemed gets
\* no further code while that row is stored.
\* ------------------------------------------------------------------------
C29_IssuanceRejectedWhileAnyCodeExists ==
    /\ [](\A student \in Students :
            /\ \A subject \in Subjects :
                  Cardinality(CodesFor(subject_activation_codes, subject, student)) <= 1
            /\ \A section \in Sections :
                  Cardinality(CodesFor(activation_codes, section, student)) <= 1
            /\ \A lesson \in Lessons :
                  Cardinality(CodesFor(lesson_activation_codes, lesson, student)) <= 1)
    /\ [][\A student \in Students :
            /\ \A subject \in Subjects :
                  (/\ CompletesFor("subject_generate_code", subject, student)
                   /\ CodesFor(subject_activation_codes, subject, student) # {})
                      => /\ last'.result = "rejected"
                         /\ UNCHANGED <<acts, codes>>
            /\ \A section \in Sections :
                  (/\ CompletesFor("section_generate_code", section, student)
                   /\ CodesFor(activation_codes, section, student) # {})
                      => /\ last'.result = "rejected"
                         /\ UNCHANGED <<acts, codes>>
            /\ \A lesson \in lessons :
                  (/\ CompletesFor("lesson_generate_code", lesson, student)
                   /\ CodesFor(lesson_activation_codes, lesson, student) # {})
                      => /\ last'.result = "rejected"
                         /\ UNCHANGED <<acts, codes>>]_vars

\* A generate_code for a (subject, student) pair whose only code has been
\* redeemed has just been rejected: the used row is the pair's only code.
C29_Witness ==
    /\ last.op = "subject_generate_code"
    /\ last.result = "rejected"
    /\ CodesFor(subject_activation_codes, last.content, last.student)
          = {UsedRow(last.content, last.student, "AAAAAA")}

\* ------------------------------------------------------------------------
\* C30.  A delete_code request removes at most one code row, only a row of
\* the content item the request names, used or unused alike; it changes no
\* activation row, no flag and no other code collection, and every access
\* decision of every student is what it was before.
\* ------------------------------------------------------------------------
DeleteCodeOps == {"subject_delete_code", "section_delete_code", "lesson_delete_code"}

\* The request named the row of student and code (code_id) on the access
\* page of content: after is before without that row if the row belongs to
\* content, and before itself if it does not.
OnlyRowOfContentRemoved(before, after, content, student, code, result) ==
    \A r \in before :
        (r.student_id = student /\ r.code = code) =>
            IF r.content = content
            THEN after = before \ {r} /\ result = "success"
            ELSE after = before /\ result # "success"

C30_DeleteCodeRemovesOnlyTheCode ==
    [][(ops' = ops + 1 /\ last'.op \in DeleteCodeOps) =>
          /\ UNCHANGED <<lessons, flags, acts>>
          /\ \A subject \in Subjects :
                (last'.op = "subject_delete_code" /\ last'.content = subject) =>
                   /\ OnlyRowOfContentRemoved(subject_activation_codes,
                                               subject_activation_codes',
                                               subject, last'.student, last'.code, last'.result)
                   /\ UNCHANGED <<activation_codes, lesson_activation_codes>>
          /\ \A section \in Sections :
                (last'.op = "section_delete_code" /\ last'.content = section) =>
                   /\ OnlyRowOfContentRemoved(activation_codes, activation_codes',
                                              section, last'.student, last'.code, last'.result)
                   /\ UNCHANGED <<subject_activation_codes, lesson_activation_codes>>
          /\ \A lesson \in Lessons :
                (last'.op = "lesson_delete_code" /\ last'.content = lesson) =>
                   /\ OnlyRowOfContentRemoved(lesson_activation_codes,
                                               lesson_activation_codes',
                                               lesson, last'.student, last'.code, last'.result)
                   /\ UNCHANGED <<subject_activation_codes, activation_codes>>
          /\ \A section \in Sections, student \in Students :
                /\ ctx_section_open(section, student)' = ctx_section_open(section, student)
                /\ \A lesson \in LessonsOf(lessons, section) :
                      lesson_open(section, student, lesson)'
                         = lesson_open(section, student, lesson)
                /\ \A test \in TestsOf(section) :
                      test_open(section, student, test)'
                         = test_open(section, student, test)]_vars

\* The code of a (section, student) pair has just been deleted while the
\* student's activation for the section, in a section that requires a code,
\* is active: the section is still open and the pair has no code row left.
C30_Witness ==
    /\ last.op = "section_delete_code"
    /\ last.result = "success"
    /\ section_requires_code[last.content]
    /\ subject_requires_code[SectionSubject[last.content]]
    /\ ActiveRow(section_activations, last.content, last.student)
    /\ CodesFor(activation_codes, last.content, last.student) = {}
    /\ ctx_section_open(last.content, last.student)

====
